---- MODULE Spec2Model ----
(***************************************************************************)
(* Model of zds/mp/api/views.py: the private-topic REST endpoints          *)
(* PrivateTopicListAPI (GET, POST, DELETE) and PrivateTopicDetailAPI       *)
(* (GET, PUT, DELETE), with the @etag / @cache_response decorators and     *)
(* the key constructors that decide which stored response a GET receives.  *)
(***************************************************************************)
EXTENDS Integers, Sequences, FiniteSets, TLC

\* ---------------------------------------------------------------- bounds
NumUsers == 2       \* authenticated members are 1..NumUsers
MaxTopics == 2      \* primary keys handed out by the database: 1..MaxTopics
MaxCache == 1       \* responses the cache backend holds at once

Anon == 0           \* the unauthenticated caller (request.user.id is None)
Users == 1..NumUsers
Callers == {Anon} \cup Users
Pks == 1..MaxTopics
Titles == {"a", "b"}
\* the query strings of the list GETs: page, page_size, search, ordering
ListParams ==
    {[page |-> 1, page_size |-> 2, search |-> "", ordering |-> "-pubdate"],
     [page |-> 2, page_size |-> 1, search |-> "a", ordering |-> "pubdate"]}

VARIABLES topics, nextpk, cache, last
vars == <<topics, nextpk, cache, last>>

\* ------------------------------------------------------ request records
\* the request handled last: its operation, caller, arguments and cache key
Request(op, user, pk, pks, key) ==
    [op |-> op, user |-> user, pk |-> pk, pks |-> pks, key |-> key]

\* its response: status and body, whether the body came from the cache and
\* for whom it was stored, the topics destroyed and the topic created
Response(status, body) ==
    [status |-> status, body |-> body, hit |-> FALSE, owner |-> Anon,
     peer |-> FALSE, destroyed |-> <<>>, created |-> 0]

Last(req, resp) ==
    [op |-> req.op, user |-> req.user, pk |-> req.pk, pks |-> req.pks,
     key |-> req.key, status |-> resp.status, body |-> resp.body,
     hit |-> resp.hit, owner |-> resp.owner, peer |-> resp.peer,
     destroyed |-> resp.destroyed, created |-> resp.created]

\* a private topic
Topic(title, author, participants) ==
    [title |-> title, author |-> author, participants |-> participants]

\* ------------------------------------------------------- status codes
HTTP_200_OK == 200
HTTP_201_CREATED == 201
HTTP_204_NO_CONTENT == 204
HTTP_304_NOT_MODIFIED == 304
HTTP_400_BAD_REQUEST == 400
HTTP_401_UNAUTHORIZED == 401
HTTP_403_FORBIDDEN == 403
HTTP_404_NOT_FOUND == 404
HTTP_412_PRECONDITION_FAILED == 412

\* ------------------------------------------------------- collaborators
\* a member takes part in a topic as its author or as one of its participants
Members(t) == {t.author} \cup t.participants

\* PrivateTopic.objects.get_private_topics_of_user(user_id)
get_private_topics_of_user(db, user_id) ==
    {pk \in DOMAIN db : user_id \in Members(db[pk])}

\* PrivateTopic.objects.get_private_topics_selected(user_id, pks)
get_private_topics_selected(db, user_id, pks) ==
    {pk \in DOMAIN db : pk \in pks /\ user_id \in Members(db[pk])}

\* IsAuthenticated.has_permission
IsAuthenticated(user) == user # Anon

\* IsParticipant.has_object_permission
IsParticipant(user, obj) == user \in Members(obj)

\* participants.first(): the participant with the lowest id
First(S) == CHOOSE x \in S : \A y \in S : x <= y

\* LeavePrivateTopic.perform_destroy(topic), acting on get_current_user()
perform_destroy(db, current_user, pk) ==
    LET topic == db[pk] IN
    IF topic.participants = {}
    THEN [p \in DOMAIN db \ {pk} |-> db[p]]
    ELSE IF current_user = topic.author
    THEN LET move == First(topic.participants) IN
         [db EXCEPT ![pk] = [topic EXCEPT !.author = move,
                                          !.participants = @ \ {move}]]
    ELSE [db EXCEPT ![pk] = [topic EXCEPT !.participants = @ \ {current_user}]]

\* ------------------------------------------------------------ the views
ListView == "PrivateTopicListAPI"
DetailView == "PrivateTopicDetailAPI"

\* permission_classes with IsAuthenticated left out
permission_classes_open(view) ==
    IF view = ListView THEN <<>> ELSE <<"IsParticipant">>

\* permission_classes of each view
permission_classes(view) ==
    IF view = ListView THEN <<"IsAuthenticated">>
    ELSE <<"IsAuthenticated", "IsParticipant">>

\* APIView.check_permissions: has_permission of every permission class
\* (IsParticipant only defines has_object_permission)
check_permissions(view, user) ==
    \A i \in DOMAIN permission_classes(view) :
        permission_classes(view)[i] = "IsAuthenticated" => IsAuthenticated(user)

\* APIView.check_object_permissions: has_object_permission of every class
check_object_permissions(view, user, obj) ==
    \A i \in DOMAIN permission_classes(view) :
        permission_classes(view)[i] = "IsParticipant" => IsParticipant(user, obj)

\* get_current_user
get_current_user(request_user) == request_user

\* get_serializer_class answering the read serializer for every method
get_serializer_class_read(view, method) == "PrivateTopicSerializer"

\* get_serializer_class of both views
get_serializer_class(view, method) ==
    IF method = "GET" THEN "PrivateTopicSerializer"
    ELSE IF method = "POST" /\ view = ListView THEN "PrivateTopicCreateSerializer"
    ELSE IF method = "PUT" /\ view = DetailView THEN "PrivateTopicUpdateSerializer"
    ELSE "None"

\* get_queryset without the DELETE branch
get_queryset_all(db, method, user, pks) == get_private_topics_of_user(db, user)

\* PrivateTopicListAPI.get_queryset
get_queryset(db, method, user, pks) ==
    IF method = "DELETE"
    THEN get_private_topics_selected(db, user, pks)
    ELSE get_private_topics_of_user(db, user)

\* ---------------------------------------------------- key constructors
\* a key bit that does not apply to a view
NoSql == [search |-> "", ordering |-> "", user |-> Anon, pk |-> 0]
NoPagination == [page |-> 0, page_size |-> 0]
NoParams == [search |-> "", ordering |-> ""]

\* bits.ListSqlQueryKeyBit: the SQL text of filter_queryset(get_queryset()),
\* which names the user id (WHERE), the search term (LIKE) and the ORDER BY
ListSqlQueryKeyBit(user, search, ordering) ==
    [search |-> search, ordering |-> ordering, user |-> user, pk |-> 0]

\* bits.RetrieveSqlQueryKeyBit: the SQL text of queryset.filter(pk=lookup)
RetrieveSqlQueryKeyBit(pk) ==
    [search |-> "", ordering |-> "", user |-> Anon, pk |-> pk]

\* the list key without its list_sql_query bit
PagingKeyWithoutSqlQuery(user, page, page_size, search, ordering) ==
    [unique_view_id |-> ListView,
     pagination |-> [page |-> page, page_size |-> page_size],
     query_params |-> [search |-> search, ordering |-> ordering],
     sql_query |-> NoSql]

\* PagingPrivateTopicListKeyConstructor
PagingPrivateTopicListKeyConstructor(user, page, page_size, search, ordering) ==
    [unique_view_id |-> ListView,
     pagination |-> [page |-> page, page_size |-> page_size],
     query_params |-> [search |-> search, ordering |-> ordering],
     sql_query |-> ListSqlQueryKeyBit(user, search, ordering)]

\* DetailKeyConstructor (format and language are the same for every request)
DetailKeyConstructor(user, pk) ==
    [unique_view_id |-> DetailView,
     pagination |-> NoPagination,
     query_params |-> NoParams,
     sql_query |-> RetrieveSqlQueryKeyBit(pk)]

NoKey == [unique_view_id |-> "", pagination |-> NoPagination,
          query_params |-> NoParams, sql_query |-> NoSql]


\* ------------------------------------------------- list() and retrieve()
\* serializer output for one topic, identified by its primary key
Rep(db, pk) == pk

\* filters.SearchFilter on search_fields = ('title',): title icontains term
\* (titles and terms are single letters, so containing is being equal)
SearchFilter(db, qs, search) ==
    IF search = "" THEN qs ELSE {pk \in qs : db[pk].title = search}

\* filters.OrderingFilter: topics are published in primary-key order
RECURSIVE OrderingFilter(_, _)
OrderingFilter(qs, ordering) ==
    IF qs = {} THEN <<>>
    ELSE LET head == IF ordering = "-pubdate"
                     THEN CHOOSE x \in qs : \A y \in qs : y <= x
                     ELSE CHOOSE x \in qs : \A y \in qs : x <= y
         IN <<head>> \o OrderingFilter(qs \ {head}, ordering)

\* filter_queryset(get_queryset()) of the list view
filter_queryset(db, user, search, ordering) ==
    OrderingFilter(SearchFilter(db, get_queryset(db, "GET", user, {}), search),
                   ordering)

\* Paginator.num_pages
NumPages(n, page_size) == (n + page_size - 1) \div page_size

\* Paginator.validate_number with allow_empty_first_page
ValidPage(n, page, page_size) ==
    page >= 1 /\ (page <= NumPages(n, page_size) \/ page = 1)

Min(a, b) == IF a < b THEN a ELSE b

\* paginate_queryset: the objects of one page
paginate_queryset(seq, page, page_size) ==
    SubSeq(seq, (page - 1) * page_size + 1, Min(page * page_size, Len(seq)))

\* the body ListModelMixin.list renders
ListBody(db, user, page, page_size, search, ordering) ==
    LET seq == paginate_queryset(filter_queryset(db, user, search, ordering),
                                 page, page_size)
    IN [i \in DOMAIN seq |-> Rep(db, seq[i])]

\* ------------------------------------------------- @etag, @cache_response
NoCond == [kind |-> "none", star |-> FALSE, etags |-> {}]

\* the conditional headers a client sends with a GET for this key: none,
\* If-None-Match with the key's ETag, If-Match with another ETag
Conds(key) ==
    {NoCond,
     [kind |-> "if_none_match", star |-> FALSE, etags |-> {key}],
     [kind |-> "if_match", star |-> FALSE, etags |-> {}]}

\* ETAGProcessor.is_if_none_match_failed
is_if_none_match_failed(res_etag, cond) ==
    cond.kind = "if_none_match" /\ (res_etag \in cond.etags \/ cond.star)

\* ETAGProcessor.is_if_match_failed
is_if_match_failed(res_etag, cond) ==
    cond.kind = "if_match" /\ res_etag \notin cond.etags /\ ~cond.star

\* cache.set(key, response): a full backend drops one stored response
CacheSet(key, entry) ==
    IF key \in DOMAIN cache \/ Cardinality(DOMAIN cache) < MaxCache
    THEN cache' = [k \in DOMAIN cache \cup {key} |->
                      IF k = key THEN entry ELSE cache[k]]
    ELSE \E victim \in DOMAIN cache :
            cache' = [k \in (DOMAIN cache \ {victim}) \cup {key} |->
                         IF k = key THEN entry ELSE cache[k]]

\* a list response stored for another member under the same query string
PeerCached(key) ==
    \E k \in DOMAIN cache :
        /\ k.unique_view_id = ListView
        /\ k.pagination = key.pagination
        /\ k.query_params = key.query_params
        /\ cache[k].owner # key.sql_query.user

\* ------------------------------------------------------ request records
\* APIView.initial refuses the request before any handler reads it
Denied(req) == Request(req.op, req.user, 0, {}, NoKey)

Init ==
    /\ topics = <<>>
    /\ nextpk = 1
    /\ cache = <<>>
    /\ last = Last(Request("init", Anon, 0, {}, NoKey), Response(0, <<>>))

\* ------------------------------------------------- serializer validation
\* PrivateTopicCreateSerializer.is_valid: title, participants and text are
\* required, and the author is not one of the participants
CreateValid(user, data) ==
    /\ data.title # ""
    /\ data.text # ""
    /\ data.participants # {}
    /\ user \notin data.participants

\* PrivateTopicUpdateSerializer.is_valid: every field is optional, and the
\* current user is not one of the added participants
UpdateValid(user, data) == user \notin data.participants

\* is_valid of the serializer class the view selects for the method
is_valid(view, method, user, data) ==
    LET cls == get_serializer_class(view, method) IN
    IF cls = "PrivateTopicCreateSerializer" THEN CreateValid(user, data)
    ELSE IF cls = "PrivateTopicUpdateSerializer" THEN UpdateValid(user, data)
    ELSE TRUE

\* PrivateTopicCreateSerializer.create: send_mp(author, participants, title,
\* subtitle, text)
SerializerCreate(user, data) ==
    Topic(data.title, user, data.participants)

\* PrivateTopicUpdateSerializer.update: participants are added, a non-empty
\* title replaces the old one
SerializerUpdate(topic, data) ==
    Topic(IF data.title # "" THEN data.title ELSE topic.title,
          topic.author,
          topic.participants \cup data.participants)

\* the forms POSTed: every field given, or one required field left out
CreateData ==
    [title : Titles, participants : {{u} : u \in Users}, text : {"t"}]
    \cup {[title |-> "", participants |-> {1}, text |-> "t"],
          [title |-> "a", participants |-> {}, text |-> "t"],
          [title |-> "a", participants |-> {1}, text |-> ""]}

\* the forms PUT: nothing, a title, or one participant to add
UpdateData ==
    {[title |-> t, participants |-> {}] : t \in Titles \cup {""}}
    \cup {[title |-> "", participants |-> {u}] : u \in Users}

\* ---------------------------------------------------------- list endpoint
\* PrivateTopicListAPI.get under @etag(list_key_func) and
\* @cache_response(key_func=list_key_func)
PrivateTopicListAPI_get(user, page, page_size, search, ordering, cond) ==
    LET key == PagingPrivateTopicListKeyConstructor(user, page, page_size,
                                                    search, ordering)
        req == Request("list_get", user, 0, {}, key)
        qs == filter_queryset(topics, user, search, ordering)
        body == ListBody(topics, user, page, page_size, search, ordering)
        peer == PeerCached(key)
    IN
    /\ UNCHANGED <<topics, nextpk>>
    /\ IF ~check_permissions(ListView, user)
       THEN /\ last' = Last(Denied(req), Response(HTTP_401_UNAUTHORIZED, <<>>))
            /\ UNCHANGED cache
       ELSE IF is_if_none_match_failed(key, cond)
       THEN /\ last' = Last(req, Response(HTTP_304_NOT_MODIFIED, <<>>))
            /\ UNCHANGED cache
       ELSE IF is_if_match_failed(key, cond)
       THEN /\ last' = Last(req, Response(HTTP_412_PRECONDITION_FAILED, <<>>))
            /\ UNCHANGED cache
       ELSE IF key \in DOMAIN cache
       THEN /\ last' = Last(req, [Response(HTTP_200_OK, cache[key].body)
                                    EXCEPT !.hit = TRUE, !.peer = peer,
                                           !.owner = cache[key].owner])
            /\ UNCHANGED cache
       ELSE IF ~ValidPage(Len(qs), page, page_size)
       THEN /\ last' = Last(req, Response(HTTP_404_NOT_FOUND, <<>>))
            /\ UNCHANGED cache
       ELSE /\ last' = Last(req, [Response(HTTP_200_OK, body)
                                    EXCEPT !.owner = user, !.peer = peer])
            /\ CacheSet(key, [body |-> body, owner |-> user])

\* PrivateTopicListAPI.post
PrivateTopicListAPI_post(user, data) ==
    LET req == Request("list_post", user, 0, {}, NoKey) IN
    /\ UNCHANGED cache
    /\ IF ~check_permissions(ListView, user)
       THEN /\ last' = Last(Denied(req), Response(HTTP_401_UNAUTHORIZED, <<>>))
            /\ UNCHANGED <<topics, nextpk>>
       ELSE IF ~is_valid(ListView, "POST", user, data)
       THEN /\ last' = Last(req, Response(HTTP_400_BAD_REQUEST, <<>>))
            /\ UNCHANGED <<topics, nextpk>>
       ELSE /\ nextpk <= MaxTopics
            /\ topics' = [p \in DOMAIN topics \cup {nextpk} |->
                            IF p = nextpk THEN SerializerCreate(user, data)
                            ELSE topics[p]]
            /\ nextpk' = nextpk + 1
            /\ last' = Last(req, [Response(HTTP_201_CREATED,
                                           <<Rep(topics', nextpk)>>)
                                    EXCEPT !.created = nextpk])

\* the loop of PrivateTopicListAPI.delete over a queryset
RECURSIVE DestroyAll(_, _, _)
DestroyAll(db, user, qs) ==
    IF qs = {} THEN [destroyed |-> <<>>, db |-> db]
    ELSE LET pk == CHOOSE x \in qs : \A y \in qs : x <= y
             rest == DestroyAll(perform_destroy(db, get_current_user(user), pk),
                                user, qs \ {pk})
         IN [destroyed |-> <<pk>> \o rest.destroyed, db |-> rest.db]

\* PrivateTopicListAPI.delete
PrivateTopicListAPI_delete(user, pks) ==
    LET req == Request("list_delete", user, 0, pks, NoKey)
        res == DestroyAll(topics, user, get_queryset(topics, "DELETE", user, pks))
    IN
    /\ UNCHANGED <<cache, nextpk>>
    /\ IF ~check_permissions(ListView, user)
       THEN /\ last' = Last(Denied(req), Response(HTTP_401_UNAUTHORIZED, <<>>))
            /\ UNCHANGED topics
       ELSE /\ topics' = res.db
            /\ last' = Last(req, [Response(HTTP_204_NO_CONTENT, <<>>)
                                    EXCEPT !.destroyed = res.destroyed])

\* -------------------------------------------------------- detail endpoint
\* PrivateTopicDetailAPI.get under @etag(obj_key_func) and
\* @cache_response(key_func=obj_key_func)
PrivateTopicDetailAPI_get(user, pk, cond) ==
    LET key == DetailKeyConstructor(user, pk)
        req == Request("detail_get", user, pk, {}, key)
    IN
    /\ UNCHANGED <<topics, nextpk>>
    /\ IF ~check_permissions(DetailView, user)
       THEN /\ last' = Last(Denied(req), Response(HTTP_401_UNAUTHORIZED, <<>>))
            /\ UNCHANGED cache
       ELSE IF is_if_none_match_failed(key, cond)
       THEN /\ last' = Last(req, Response(HTTP_304_NOT_MODIFIED, <<>>))
            /\ UNCHANGED cache
       ELSE IF is_if_match_failed(key, cond)
       THEN /\ last' = Last(req, Response(HTTP_412_PRECONDITION_FAILED, <<>>))
            /\ UNCHANGED cache
       ELSE IF key \in DOMAIN cache
       THEN /\ last' = Last(req, [Response(HTTP_200_OK, cache[key].body)
                                    EXCEPT !.hit = TRUE,
                                           !.owner = cache[key].owner])
            /\ UNCHANGED cache
       ELSE IF pk \notin DOMAIN topics
       THEN /\ last' = Last(req, Response(HTTP_404_NOT_FOUND, <<>>))
            /\ UNCHANGED cache
       ELSE IF ~check_object_permissions(DetailView, user, topics[pk])
       THEN /\ last' = Last(req, Response(HTTP_403_FORBIDDEN, <<>>))
            /\ UNCHANGED cache
       ELSE /\ last' = Last(req, [Response(HTTP_200_OK, <<Rep(topics, pk)>>)
                                    EXCEPT !.owner = user])
            /\ CacheSet(key, [body |-> <<Rep(topics, pk)>>, owner |-> user])

\* PrivateTopicDetailAPI.put
PrivateTopicDetailAPI_put(user, pk, data) ==
    LET req == Request("detail_put", user, pk, {}, NoKey) IN
    /\ UNCHANGED <<cache, nextpk>>
    /\ IF ~check_permissions(DetailView, user)
       THEN /\ last' = Last(Denied(req), Response(HTTP_401_UNAUTHORIZED, <<>>))
            /\ UNCHANGED topics
       ELSE IF pk \notin DOMAIN topics
       THEN /\ last' = Last(req, Response(HTTP_404_NOT_FOUND, <<>>))
            /\ UNCHANGED topics
       ELSE IF ~check_object_permissions(DetailView, user, topics[pk])
       THEN /\ last' = Last(req, Response(HTTP_403_FORBIDDEN, <<>>))
            /\ UNCHANGED topics
       ELSE IF ~is_valid(DetailView, "PUT", user, data)
       THEN /\ last' = Last(req, Response(HTTP_400_BAD_REQUEST, <<>>))
            /\ UNCHANGED topics
       ELSE /\ topics' = [topics EXCEPT ![pk] = SerializerUpdate(@, data)]
            /\ last' = Last(req, Response(HTTP_200_OK, <<Rep(topics', pk)>>))

\* PrivateTopicDetailAPI.delete
PrivateTopicDetailAPI_delete(user, pk) ==
    LET req == Request("detail_delete", user, pk, {}, NoKey) IN
    /\ UNCHANGED <<cache, nextpk>>
    /\ IF ~check_permissions(DetailView, user)
       THEN /\ last' = Last(Denied(req), Response(HTTP_401_UNAUTHORIZED, <<>>))
            /\ UNCHANGED topics
       ELSE IF pk \notin DOMAIN topics
       THEN /\ last' = Last(req, Response(HTTP_404_NOT_FOUND, <<>>))
            /\ UNCHANGED topics
       ELSE IF ~check_object_permissions(DetailView, user, topics[pk])
       THEN /\ last' = Last(req, Response(HTTP_403_FORBIDDEN, <<>>))
            /\ UNCHANGED topics
       ELSE /\ topics' = perform_destroy(topics, get_current_user(user), pk)
            /\ last' = Last(req, [Response(HTTP_204_NO_CONTENT, <<>>)
                                    EXCEPT !.destroyed = <<pk>>])

\* ------------------------------------------------------------ the cache
\* a stored response reaches DEFAULT_CACHE_RESPONSE_TIMEOUT and is dropped
CacheExpire(key) ==
    /\ key \in DOMAIN cache
    /\ cache' = [k \in DOMAIN cache \ {key} |-> cache[k]]
    /\ last' = Last(Request("expire", Anon, 0, {}, key), Response(0, <<>>))
    /\ UNCHANGED <<topics, nextpk>>

\* ------------------------------------------------------- specification
ListGet ==
    \E user \in Callers, p \in ListParams :
        \E cond \in Conds(PagingPrivateTopicListKeyConstructor(
                              user, p.page, p.page_size, p.search, p.ordering)) :
            PrivateTopicListAPI_get(user, p.page, p.page_size, p.search,
                                    p.ordering, cond)
ListPost == \E user \in Callers, data \in CreateData :
                PrivateTopicListAPI_post(user, data)
ListDelete == \E user \in Callers, pks \in SUBSET Pks :
                PrivateTopicListAPI_delete(user, pks)
DetailGet == \E user \in Callers, pk \in Pks :
                \E cond \in Conds(DetailKeyConstructor(user, pk)) :
                    PrivateTopicDetailAPI_get(user, pk, cond)
\* (the participants a PUT adds are members other than the topic's author)
DetailPut == \E user \in Callers, pk \in Pks, data \in UpdateData :
                /\ pk \in DOMAIN topics => topics[pk].author \notin data.participants
                /\ PrivateTopicDetailAPI_put(user, pk, data)
DetailDelete == \E user \in Callers, pk \in Pks :
                PrivateTopicDetailAPI_delete(user, pk)
Expire == \E key \in DOMAIN cache : CacheExpire(key)

Next ==
    \/ ListGet
    \/ ListPost
    \/ ListDelete
    \/ DetailGet
    \/ DetailPut
    \/ DetailDelete
    \/ Expire

Spec == Init /\ [][Next]_vars

TypeOK ==
    /\ DOMAIN topics \subseteq Pks
    /\ nextpk \in 1..(MaxTopics + 1)
    /\ Cardinality(DOMAIN cache) <= MaxCache

\* ================================================================ claims
Range(seq) == {seq[i] : i \in DOMAIN seq}
RequestOps == {"list_get", "list_post", "list_delete",
               "detail_get", "detail_put", "detail_delete"}
DetailOps == {"detail_get", "detail_put", "detail_delete"}

\* C1: a request by an unauthenticated caller, on either endpoint and in any
\* state, is answered 401 and changes neither the topics nor the cache.
C1_Unauthenticated ==
    [][(last'.op \in RequestOps /\ last'.user = Anon)
        => /\ last'.status = HTTP_401_UNAUTHORIZED
           /\ last'.body = <<>>
           /\ last'.key = NoKey
           /\ topics' = topics
           /\ nextpk' = nextpk
           /\ cache' = cache]_vars

\* an unauthenticated detail GET was refused while a response is stored and a
\* topic exists
C1_Witness ==
    /\ last.op = "detail_get"
    /\ last.user = Anon
    /\ last.status = HTTP_401_UNAUTHORIZED
    /\ DOMAIN topics # {}
    /\ \E k \in DOMAIN cache : k.unique_view_id = DetailView

\* C2: GET, PUT and DELETE of the detail endpoint by an authenticated member
\* who takes no part in the existing topic end in 403 and leave the topic as
\* it was.
C2_NonParticipantForbidden ==
    [][(/\ last'.op \in DetailOps
        /\ last'.user \in Users
        /\ last'.pk \in DOMAIN topics
        /\ ~IsParticipant(last'.user, topics[last'.pk]))
        => /\ last'.status = HTTP_403_FORBIDDEN
           /\ topics' = topics]_vars

\* C2 (stored response): a detail GET by a member who takes no part in the
\* topic is never answered 200 with the topic.
C2_NeverServed ==
    [][(/\ last'.op = "detail_get"
        /\ last'.user \in Users
        /\ last'.pk \in DOMAIN topics
        /\ ~IsParticipant(last'.user, topics[last'.pk]))
        => last'.status # HTTP_200_OK]_vars

\* C2 (PUT, DELETE): a detail PUT or DELETE by a member who takes no part in
\* the topic ends in 403 and leaves the topics as they were.
C2_PutDeleteForbidden ==
    [][(/\ last'.op \in {"detail_put", "detail_delete"}
        /\ last'.user \in Users
        /\ last'.pk \in DOMAIN topics
        /\ ~IsParticipant(last'.user, topics[last'.pk]))
        => /\ last'.status = HTTP_403_FORBIDDEN
           /\ topics' = topics]_vars

\* C3: a list GET answered 200 carries exactly the topics the member's
\* queryset yields at the time of the request, for the request's page,
\* search and ordering.
C3_ListIsCurrent ==
    (last.op = "list_get" /\ last.status = HTTP_200_OK)
    => last.body = ListBody(topics, last.user,
                            last.key.pagination.page,
                            last.key.pagination.page_size,
                            last.key.query_params.search,
                            last.key.query_params.ordering)

\* C4: the bulk DELETE applies perform_destroy exactly once to each topic of
\* get_private_topics_selected(user, pks) and leaves every other topic as it
\* was.
C4_BulkDelete ==
    [][(last'.op = "list_delete" /\ last'.user \in Users)
        => LET sel == get_private_topics_selected(topics, last'.user, last'.pks)
           IN /\ last'.status = HTTP_204_NO_CONTENT
              /\ Range(last'.destroyed) = sel
              /\ Len(last'.destroyed) = Cardinality(sel)
              /\ DOMAIN topics' \subseteq DOMAIN topics
              /\ \A pk \in DOMAIN topics \ sel :
                    pk \in DOMAIN topics' /\ topics'[pk] = topics[pk]
              /\ \A pk \in sel :
                    LET once == perform_destroy(topics, last'.user, pk) IN
                    /\ pk \in DOMAIN topics' <=> pk \in DOMAIN once
                    /\ pk \in DOMAIN topics' => topics'[pk] = once[pk]]_vars

\* a bulk DELETE naming both topics destroyed the one the member takes part
\* in and left the other, which still exists
C4_Witness ==
    /\ last.op = "list_delete"
    /\ last.pks = {1, 2}
    /\ last.destroyed = <<1>>
    /\ 2 \in DOMAIN topics
    /\ last.user \notin Members(topics[2])

\* C5 (effect): a detail DELETE by a participant applies perform_destroy once
\* to that topic for request.user, after which the member takes no part in
\* it, every other member keeps theirs, and no other topic changes.
C5_LeaveEffect ==
    [][(last'.op = "detail_delete" /\ last'.status = HTTP_204_NO_CONTENT)
        => LET u == last'.user
               t == last'.pk
           IN /\ last'.destroyed = <<t>>
              /\ IsParticipant(u, topics[t])
              /\ topics' = perform_destroy(topics, u, t)
              /\ t \notin get_private_topics_of_user(topics', u)
              /\ \A v \in Users \ {u} :
                    v \in Members(topics[t])
                    => t \in get_private_topics_of_user(topics', v)
              /\ \A pk \in DOMAIN topics \ {t} :
                    pk \in DOMAIN topics' /\ topics'[pk] = topics[pk]]_vars

\* C5 (list): the list GET the member makes right after leaving a topic does
\* not show that topic.
C5_LeaveUnseen ==
    [][(/\ last.op = "detail_delete"
        /\ last.status = HTTP_204_NO_CONTENT
        /\ last'.op = "list_get"
        /\ last'.user = last.user
        /\ last'.status = HTTP_200_OK)
        => last.pk \notin Range(last'.body)]_vars

\* C5: a detail DELETE makes request.user leave the topic: perform_destroy
\* runs once for it, nobody else's membership and no other topic changes,
\* and the member no longer sees the topic in their list GET.
C5_Leave ==
    [][/\ (last'.op = "detail_delete" /\ last'.status = HTTP_204_NO_CONTENT)
          => /\ last'.destroyed = <<last'.pk>>
             /\ topics' = perform_destroy(topics, last'.user, last'.pk)
             /\ \A pk \in DOMAIN topics \ {last'.pk} :
                    pk \in DOMAIN topics' /\ topics'[pk] = topics[pk]
       /\ (/\ last.op = "detail_delete"
           /\ last.status = HTTP_204_NO_CONTENT
           /\ last'.op = "list_get"
           /\ last'.user = last.user
           /\ last'.status = HTTP_200_OK)
          => last.pk \notin Range(last'.body)]_vars

\* the required fields of the creation form are all given
RequiredGiven(data) ==
    data.title # "" /\ data.participants # {} /\ data.text # ""

C7_NoSharing ==
    /\ (last.op = "list_get" /\ last.status = HTTP_200_OK)
       => last.owner = last.user
    /\ \A k \in DOMAIN cache :
          k.unique_view_id = ListView => cache[k].owner = k.sql_query.user
    /\ \A u \in Users, v \in Users, p \in ListParams :
          u # v =>
          PagingPrivateTopicListKeyConstructor(u, p.page, p.page_size, p.search,
                                               p.ordering)
          # PagingPrivateTopicListKeyConstructor(v, p.page, p.page_size,
                                                 p.search, p.ordering)

\* a member's list GET was answered 200 while another member's response to
\* the same query string was stored
C7_Witness ==
    /\ last.op = "list_get"
    /\ last.status = HTTP_200_OK
    /\ last.peer
    /\ last.body # <<>>

====
